---- MODULE Spec2Model ----
(***************************************************************************)
(* A model of topsis_surya/core.py: the command-line TOPSIS pipeline       *)
(* main -> run_topsis -> read_and_validate_csv -> parse_and_validate ->    *)
(* topsis_calculation -> DataFrame.to_csv.                                 *)
(*                                                                         *)
(* Strings the program parses (the weights and impacts arguments) are      *)
(* sequences of one-character strings, so that split/strip/float are       *)
(* computed.  Real numbers are fixed-point integers in units of 1/Scale;   *)
(* sqrt and division round towards zero.  np.argsort is called with its    *)
(* default kind ('quicksort'), which numpy documents as not stable, so the *)
(* order it gives to equal keys is any order.                              *)
(***************************************************************************)
EXTENDS Integers, Sequences, FiniteSets, TLC

VARIABLES
    argv,         \* sys.argv[1:]; the text of the weights and impacts arguments
                  \* is drawn when parse_and_validate reads it
    input_file,   \* what pd.read_csv found at the input path
    pc,           \* the function the run is about to execute, or "exited"
    df,           \* run_topsis: the DataFrame
    weights,      \* the parsed weights (fixed-point)
    impacts,      \* the parsed impact tokens
    s_best,       \* topsis_calculation: distance to the ideal best, per row
    s_worst,      \* topsis_calculation: distance to the ideal worst, per row
    scores,       \* topsis_calculation: closeness scores (fixed-point)
    ranks,        \* topsis_calculation: ranks
    stdout,       \* the lines printed
    exit_code,    \* the exit status, once pc = "exited"
    output_file   \* what df.to_csv wrote at the output path

vars == <<argv, input_file, pc, df, weights, impacts,
          s_best, s_worst, scores, ranks, stdout, exit_code, output_file>>

----------------------------------------------------------------------------
(* Bounds of the model *)

\* the largest number of data rows of an input table
MaxRows == 2

\* fixed-point resolution: a real x is the integer x * Scale, rounded towards 0
Scale == 1000

(* Constants of the program *)

\* read_and_validate_csv: df.shape[1] < 3
MinColumns == 3

\* main: len(args) != 4
ArgCount == 4

\* error_and_exit: sys.exit(1)
ExitFailure == 1

----------------------------------------------------------------------------
(* Generic helpers on sequences and integers *)

RECURSIVE SumSeq(_)
SumSeq(s) == IF s = <<>> THEN 0 ELSE Head(s) + SumSeq(Tail(s))

SetMax(S) == CHOOSE x \in S : \A y \in S : y <= x

SetMin(S) == CHOOSE x \in S : \A y \in S : x <= y

\* floating-point division, rounded towards zero (symmetric in the sign)
Quot(a, b) == IF a >= 0 THEN a \div b ELSE -((-a) \div b)

RECURSIVE SqrtBetween(_, _, _)
SqrtBetween(n, lo, hi) ==
    IF lo >= hi THEN lo
    ELSE LET mid == (lo + hi + 1) \div 2
         IN  IF mid * mid <= n THEN SqrtBetween(n, mid, hi)
             ELSE SqrtBetween(n, lo, mid - 1)

RECURSIVE SqrtUpper(_, _)
SqrtUpper(n, h) == IF h * h > n THEN h ELSE SqrtUpper(n, 2 * h)

\* np.sqrt on a non-negative number: the largest r with r * r <= n
ISqrt(n) == SqrtBetween(n, 0, SqrtUpper(n, 1))

----------------------------------------------------------------------------
(* str.split(","), str.strip() and float() *)

Whitespace == {" "}

DigitChars == <<"0", "1", "2", "3", "4", "5", "6", "7", "8", "9">>

IsDigit(c) == \E d \in DOMAIN DigitChars : DigitChars[d] = c

DigitVal(c) == (CHOOSE d \in DOMAIN DigitChars : DigitChars[d] = c) - 1

\* s.split(","): the pieces between the commas; always at least one piece
RECURSIVE SplitFrom(_, _, _)
SplitFrom(s, k, piece) ==
    IF k > Len(s) THEN <<piece>>
    ELSE IF s[k] = "," THEN <<piece>> \o SplitFrom(s, k + 1, <<>>)
    ELSE SplitFrom(s, k + 1, Append(piece, s[k]))

Split(s) == SplitFrom(s, 1, <<>>)

RECURSIVE LStrip(_)
LStrip(s) == IF s # <<>> /\ Head(s) \in Whitespace THEN LStrip(Tail(s)) ELSE s

RECURSIVE RStrip(_)
RStrip(s) ==
    IF s # <<>> /\ s[Len(s)] \in Whitespace THEN RStrip(SubSeq(s, 1, Len(s) - 1))
    ELSE s

\* s.strip()
Strip(s) == LStrip(RStrip(s))

\* [t.strip() for t in arg.split(",") if t.strip()]
Tokens(arg) ==
    LET pieces == Split(arg)
    IN  SelectSeq([k \in DOMAIN pieces |-> Strip(pieces[k])], LAMBDA t : t # <<>>)

\* the digits of a decimal numeral: an integer part, and at most one "."
\* followed by a fraction part; at least one digit in all
IsUnsignedNumeral(t) ==
    /\ \E k \in DOMAIN t : IsDigit(t[k])
    /\ \A k \in DOMAIN t : IsDigit(t[k]) \/ t[k] = "."
    /\ Cardinality({k \in DOMAIN t : t[k] = "."}) <= 1

HasSign(t) == t # <<>> /\ Head(t) \in {"+", "-"}

Unsigned(t) == IF HasSign(t) THEN Tail(t) ELSE t

\* float(t) raises ValueError unless t is a numeral (of the characters modelled)
IsFloat(t) == IsUnsignedNumeral(Unsigned(t))

RECURSIVE IntPart(_, _)
IntPart(t, acc) ==
    IF t = <<>> \/ Head(t) = "." THEN acc
    ELSE IntPart(Tail(t), 10 * acc + DigitVal(Head(t)))

RECURSIVE FracDigits(_)
FracDigits(t) ==
    IF t = <<>> THEN <<>>
    ELSE IF Head(t) = "." THEN Tail(t)
    ELSE FracDigits(Tail(t))

RECURSIVE FracPart(_, _)
FracPart(ds, unit) ==
    IF ds = <<>> THEN 0
    ELSE DigitVal(Head(ds)) * (unit \div 10) + FracPart(Tail(ds), unit \div 10)

\* float(t), as a fixed-point number
Float(t) ==
    LET u == Unsigned(t)
        mag == IntPart(u, 0) * Scale + FracPart(FracDigits(u), Scale)
    IN  IF HasSign(t) /\ Head(t) = "-" THEN -mag ELSE mag

----------------------------------------------------------------------------
(* Tables: the CSV file, the DataFrame, the numeric matrix *)

\* pd.to_numeric(errors="coerce") gives NaN for a cell that is no number
IsNumericCell(c) == IsDigit(c)

NumericValue(c) == DigitVal(c)

NCols(frame) == Len(frame.columns)

NRows(frame) == Len(frame.rows)

\* df.iloc[:, 1:].apply(pd.to_numeric, errors="coerce").notna().all().all()
AllCriteriaNumeric(frame) ==
    \A i \in 1..NRows(frame) : \A j \in 2..NCols(frame) :
        IsNumericCell(frame.rows[i][j])

\* df.iloc[:, 1:].to_numpy(dtype=float): shape (rows, columns - 1)
ToNumpy(frame) ==
    [nrows |-> NRows(frame),
     ncols |-> NCols(frame) - 1,
     v     |-> [i \in 1..NRows(frame) |->
                  [j \in 1..(NCols(frame) - 1) |-> NumericValue(frame.rows[i][j + 1])]]]

\* df[name] = values: an existing column of that name is replaced in place,
\* otherwise the column is appended
SetColumn(frame, name, values) ==
    IF \E k \in DOMAIN frame.columns : frame.columns[k] = name
    THEN LET k == CHOOSE c \in DOMAIN frame.columns : frame.columns[c] = name
         IN  [columns |-> frame.columns,
              rows    |-> [i \in DOMAIN frame.rows |->
                             [frame.rows[i] EXCEPT ![k] = values[i]]]]
    ELSE [columns |-> Append(frame.columns, name),
          rows    |-> [i \in DOMAIN frame.rows |-> Append(frame.rows[i], values[i])]]

\* to_csv writes every value as text
Format(values) == [i \in DOMAIN values |-> ToString(values[i])]

----------------------------------------------------------------------------
(* topsis_calculation, step by step *)

\* a variant of Norms: the norm of each column about its minimum, which is 0
\* for every column that holds a single value
NormsCentred(data) ==
    [j \in 1..data.ncols |->
        LET low == IF data.nrows = 0 THEN 0
                   ELSE SetMin({data.v[i][j] : i \in 1..data.nrows})
        IN  ISqrt(SumSeq([i \in 1..data.nrows |->
                            (data.v[i][j] - low) * (data.v[i][j] - low)])
                  * Scale * Scale)]

\* np.linalg.norm(data, axis=0)
Norms(data) ==
    [j \in 1..data.ncols |->
        ISqrt(SumSeq([i \in 1..data.nrows |-> data.v[i][j] * data.v[i][j]])
              * Scale * Scale)]

\* np.any(norms == 0)
AnyZeroNorm(norms) == \E j \in DOMAIN norms : norms[j] = 0

\* (data / norms) * weights
Weighted(data, norms, w) ==
    [i \in 1..data.nrows |->
        [j \in 1..data.ncols |->
            Quot(Quot(data.v[i][j] * Scale * Scale, norms[j]) * w[j], Scale)]]

\* the impact tokens "+" and "-"
Benefit == <<"+">>

Cost == <<"-">>

\* weighted.max(axis=0)
ColMax(weighted, j) == SetMax({weighted[i][j] : i \in DOMAIN weighted})

\* weighted.min(axis=0)
ColMin(weighted, j) == SetMin({weighted[i][j] : i \in DOMAIN weighted})

\* a variant of IdealBest: max() and min() taken over the whole array (no axis)
IdealBestNoAxis(weighted, imp) ==
    LET all == {weighted[i][j] : i \in DOMAIN weighted, j \in DOMAIN imp}
    IN  [j \in DOMAIN imp |-> IF imp[j] = Benefit THEN SetMax(all) ELSE SetMin(all)]

\* np.where(impacts == "+", weighted.max(axis=0), weighted.min(axis=0))
IdealBest(weighted, imp) ==
    [j \in DOMAIN imp |->
        IF imp[j] = Benefit THEN ColMax(weighted, j) ELSE ColMin(weighted, j)]

\* np.where(impacts == "+", weighted.min(axis=0), weighted.max(axis=0))
IdealWorst(weighted, imp) ==
    [j \in DOMAIN imp |->
        IF imp[j] = Benefit THEN ColMin(weighted, j) ELSE ColMax(weighted, j)]

\* np.linalg.norm(weighted - ideal, axis=1)
Separation(weighted, ideal) ==
    [i \in DOMAIN weighted |->
        ISqrt(SumSeq([j \in DOMAIN ideal |->
                        (weighted[i][j] - ideal[j]) * (weighted[i][j] - ideal[j])]))]

\* a variant of Closeness: the numerator is s_worst - s_best
ClosenessOfDifference(sb, sw) ==
    [i \in DOMAIN sw |->
        IF sb[i] + sw[i] # 0 THEN Quot((sw[i] - sb[i]) * Scale, sb[i] + sw[i]) ELSE 0]

\* np.divide(s_worst, s_best + s_worst, out=zeros, where=(s_best + s_worst) != 0)
Closeness(sb, sw) ==
    [i \in DOMAIN sw |->
        IF sb[i] + sw[i] # 0 THEN Quot(sw[i] * Scale, sb[i] + sw[i]) ELSE 0]

SBest(data, w, imp) ==
    LET weighted == Weighted(data, Norms(data), w)
    IN  Separation(weighted, IdealBest(weighted, imp))

SWorst(data, w, imp) ==
    LET weighted == Weighted(data, Norms(data), w)
    IN  Separation(weighted, IdealWorst(weighted, imp))

Negated(keys) == [i \in DOMAIN keys |-> -keys[i]]

\* np.argsort(keys) with the default kind="quicksort": an index array (from 0)
\* that puts the keys in ascending order.  The sort is not stable, so every
\* order of equal keys is a possible result.
Argsort(keys) ==
    LET n   == Len(keys)
        idx == 0..(n - 1)
    IN  {p \in [idx -> idx] :
            /\ \A a, b \in idx : a # b => p[a] # p[b]
            /\ \A a, b \in idx : a < b => keys[p[a] + 1] <= keys[p[b] + 1]}

\* a variant of RanksOf: order.argsort(), without the + 1
RanksFromZero(order) ==
    [i \in 1..Cardinality(DOMAIN order) |-> CHOOSE k \in DOMAIN order : order[k] = i - 1]

\* order.argsort() + 1: the keys of order are distinct, so the result is its
\* inverse permutation, shifted to start at 1
RanksOf(order) ==
    [i \in 1..Cardinality(DOMAIN order) |->
        (CHOOSE k \in DOMAIN order : order[k] = i - 1) + 1]

----------------------------------------------------------------------------
(* The inputs of a run *)

\* sequences of arguments: too few, exactly four, too many
Argvs ==
    { <<"data.csv">>,
      <<"data.csv", "<weights>", "<impacts>", "result.csv">>,
      <<"data.csv", "<weights>", "<impacts>", "result.csv", "extra">> }

\* texts of the weights argument: "1, 2", "-1,0", "1,x", "0.5,,2,1"
WeightArgs ==
    { <<"1", ",", " ", "2">>,
      <<"-", "1", ",", "0">>,
      <<"1", ",", "x">>,
      <<"0", ".", "5", ",", ",", "2", ",", "1">> }

\* texts of the impacts argument: "+, -", "+,+", "-,+,+", "+,x"
ImpactArgs ==
    { <<"+", ",", " ", "-">>,
      <<"+", ",", "+">>,
      <<"-", ",", "+", ",", "+">>,
      <<"+", ",", "x">> }

\* header rows of the input table; the first column names the alternative
HeaderRows ==
    { <<"Id", "P1">>,
      <<"Id", "P1", "P2">>,
      <<"Id", "Rank", "P2">>,
      <<"Rank", "P1", "Topsis Score">>,
      <<"Id", "P1", "P2", "P3">> }

\* texts of a criteria cell: numbers, and a text that is no number
CellTexts == {"0", "1", "2", "x"}

\* the identifier of the i-th alternative
IdText(i) == ToString(i)

NoFile == [kind |-> "none", columns |-> <<>>, rows |-> <<>>]

MissingFile == [kind |-> "missing", columns |-> <<>>, rows |-> <<>>]

UnparsableFile == [kind |-> "unparsable", columns |-> <<>>, rows |-> <<>>]

\* a CSV file with header row h and n data rows, whose criteria cells are body
CsvFile(h, n, body) ==
    [kind |-> "csv", columns |-> h, rows |-> [i \in 1..n |-> <<IdText(i)>> \o body[i]]]

NoFrame == [columns |-> <<>>, rows |-> <<>>]

----------------------------------------------------------------------------
(* The run *)

Init ==
    /\ argv \in Argvs
    /\ input_file = NoFile
    /\ pc = "main"
    /\ df = NoFrame
    /\ weights = <<>>
    /\ impacts = <<>>
    /\ s_best = <<>>
    /\ s_worst = <<>>
    /\ scores = <<>>
    /\ ranks = <<>>
    /\ stdout = <<>>
    /\ exit_code = 0
    /\ output_file = NoFile

\* a variant of error_and_exit: sys.exit() without a status
error_and_exit_status_0(message) ==
    /\ stdout' = Append(stdout, <<"Error: ">> \o message)
    /\ exit_code' = 0
    /\ pc' = "exited"

\* error_and_exit(message): print(f"Error: {message}"); sys.exit(1)
error_and_exit(message) ==
    /\ stdout' = Append(stdout, <<"Error: ">> \o message)
    /\ exit_code' = ExitFailure
    /\ pc' = "exited"

\* main, up to the call of run_topsis
Main ==
    /\ pc = "main"
    /\ IF Len(argv) # ArgCount
       THEN error_and_exit(<<"Usage: <InputDataFile> <Weights> <Impacts> <OutputResultFile>">>)
       ELSE /\ pc' = "read_and_validate_csv"
            /\ UNCHANGED <<stdout, exit_code>>
    /\ UNCHANGED <<argv, input_file, df, weights, impacts,
                   s_best, s_worst, scores, ranks, output_file>>

\* read_and_validate_csv(path), on the file f that pd.read_csv finds
ReadFile(f) ==
    /\ input_file' = f
    /\ IF f.kind = "missing"
       THEN error_and_exit(<<"File not found">>) /\ UNCHANGED df
       ELSE IF f.kind = "unparsable"
       THEN error_and_exit(<<"Unable to read file: ", "<exception>">>) /\ UNCHANGED df
       ELSE LET frame == [columns |-> f.columns, rows |-> f.rows]
            IN  IF NCols(frame) < MinColumns
                THEN /\ error_and_exit(<<"Input file must have at least 3 columns">>)
                     /\ UNCHANGED df
                ELSE IF ~AllCriteriaNumeric(frame)
                THEN /\ error_and_exit(<<"Columns 2 onwards must contain only numeric values">>)
                     /\ UNCHANGED df
                ELSE /\ df' = frame
                     /\ pc' = "parse_and_validate"
                     /\ UNCHANGED <<stdout, exit_code>>

\* read_and_validate_csv(path)
ReadAndValidateCsv ==
    /\ pc = "read_and_validate_csv"
    /\ \/ ReadFile(MissingFile)
       \/ ReadFile(UnparsableFile)
       \/ \E h \in HeaderRows, n \in 0..MaxRows :
            \E body \in [1..n -> [1..(Len(h) - 1) -> CellTexts]] :
                ReadFile(CsvFile(h, n, body))
    /\ UNCHANGED <<argv, weights, impacts, s_best, s_worst, scores, ranks, output_file>>

\* a variant of CountMismatch: "and" in place of "or"
CountMismatchOfBoth(w, imp, ncols) == Len(w) # ncols /\ Len(imp) # ncols

\* len(weights) != ncols or len(impacts) != ncols
CountMismatch(w, imp, ncols) == Len(w) # ncols \/ Len(imp) # ncols

\* all(imp in ("+", "-") for imp in impacts)
AllImpactSymbols(imp) == \A k \in DOMAIN imp : imp[k] \in {Benefit, Cost}

\* parse_and_validate(weights_arg, impacts_arg, ncols), with ncols = df.shape[1] - 1
ParseAndValidate ==
    /\ pc = "parse_and_validate"
    /\ \E weights_arg \in WeightArgs, impacts_arg \in ImpactArgs :
        LET ncols   == NCols(df) - 1
            wtokens == Tokens(weights_arg)
            parsed  == [k \in DOMAIN wtokens |-> Float(wtokens[k])]
            itokens == Tokens(impacts_arg)
        IN  IF \E k \in DOMAIN wtokens : ~IsFloat(wtokens[k])
            THEN /\ error_and_exit(<<"Weights must be numeric and separated by commas">>)
                 /\ UNCHANGED <<weights, impacts>>
            ELSE IF ~AllImpactSymbols(itokens)
            THEN /\ error_and_exit(<<"Impacts must be '+' or '-' and separated by commas">>)
                 /\ weights' = parsed
                 /\ impacts' = itokens
            ELSE IF CountMismatch(parsed, itokens, ncols)
            THEN /\ error_and_exit(<<"Weights and impacts count must equal criteria count",
                                     ToString(ncols)>>)
                 /\ weights' = parsed
                 /\ impacts' = itokens
            ELSE /\ weights' = parsed
                 /\ impacts' = itokens
                 /\ pc' = "topsis_calculation"
                 /\ UNCHANGED <<stdout, exit_code>>
    /\ UNCHANGED <<argv, input_file, df, s_best, s_worst, scores, ranks, output_file>>

\* topsis_calculation(data, weights, impacts), with data = df.iloc[:, 1:].to_numpy()
TopsisCalculation ==
    /\ pc = "topsis_calculation"
    /\ LET data  == ToNumpy(df)
           norms == Norms(data)
       IN  IF AnyZeroNorm(norms)
           THEN /\ error_and_exit(<<"Column with all zeros detected">>)
                /\ UNCHANGED <<s_best, s_worst, scores, ranks>>
           ELSE LET weighted == Weighted(data, norms, weights)
                    sb       == Separation(weighted, IdealBest(weighted, impacts))
                    sw       == Separation(weighted, IdealWorst(weighted, impacts))
                    sc       == Closeness(sb, sw)
                IN  /\ s_best' = sb
                    /\ s_worst' = sw
                    /\ scores' = sc
                    /\ \E order \in Argsort(Negated(sc)) : ranks' = RanksOf(order)
                    /\ pc' = "to_csv"
                    /\ UNCHANGED <<stdout, exit_code>>
    /\ UNCHANGED <<argv, input_file, df, weights, impacts, output_file>>

\* run_topsis: df["Topsis Score"] = scores; df["Rank"] = ranks; df.to_csv(output_path)
WriteOutput ==
    /\ pc = "to_csv"
    /\ LET scored == SetColumn(df, "Topsis Score", Format(scores))
           ranked == SetColumn(scored, "Rank", Format(ranks))
       IN  /\ df' = ranked
           /\ output_file' = [kind |-> "csv", columns |-> ranked.columns, rows |-> ranked.rows]
    /\ pc' = "print_result"
    /\ UNCHANGED <<argv, input_file, weights, impacts, s_best, s_worst, scores, ranks,
                   stdout, exit_code>>

\* main: print(f"Result written to {args[3]}"), and the normal end of the process
PrintResult ==
    /\ pc = "print_result"
    /\ stdout' = Append(stdout, <<"Result written to ", argv[ArgCount]>>)
    /\ pc' = "exited"
    /\ UNCHANGED <<argv, input_file, df, weights, impacts, s_best, s_worst, scores, ranks,
                   exit_code, output_file>>

Next ==
    \/ Main
    \/ ReadAndValidateCsv
    \/ ParseAndValidate
    \/ TopsisCalculation
    \/ WriteOutput
    \/ PrintResult

Spec == Init /\ [][Next]_vars

----------------------------------------------------------------------------
(* What the properties speak about *)

\* the table the run read, as a frame
InputFrame == [columns |-> input_file.columns, rows |-> input_file.rows]

\* the number of alternatives and of criteria of the table the run read
R == Len(input_file.rows)

C == Len(input_file.columns) - 1

\* the dataset checks pass: a readable table, three columns or more, numeric criteria
DatasetOk ==
    /\ input_file.kind = "csv"
    /\ Len(input_file.columns) >= MinColumns
    /\ \A i \in 1..R : \A j \in 2..(C + 1) : input_file.rows[i][j] \in {"0", "1", "2"}

\* the parameter checks pass: impact symbols only, as many of each as criteria
ParamsOk ==
    /\ \A k \in DOMAIN impacts : impacts[k] = <<"+">> \/ impacts[k] = <<"-">>
    /\ Len(weights) = C
    /\ Len(impacts) = C

\* criteria column j of the table holds nothing but zeros
AllZeroColumn(j) == \A i \in 1..R : input_file.rows[i][j + 1] = "0"

\* criteria column j of the table holds one value, and it is not zero
ConstantNonzeroColumn(j) ==
    /\ R >= 1
    /\ input_file.rows[1][j + 1] # "0"
    /\ \A i \in 1..R : input_file.rows[i][j + 1] = input_file.rows[1][j + 1]

\* parse_and_validate has returned (weights, impacts)
ParametersReturned ==
    \/ pc \in {"topsis_calculation", "to_csv", "print_result"}
    \/ pc = "exited" /\ Len(stdout) = 1 /\ stdout[1][1] = "Result written to "
    \/ pc = "exited" /\ stdout = <<<<"Error: ", "Column with all zeros detected">>>>

\* topsis_calculation has returned (scores, ranks)
EngineReturned ==
    \/ pc \in {"to_csv", "print_result"}
    \/ pc = "exited" /\ Len(stdout) = 1 /\ stdout[1][1] = "Result written to "

\* the run ended normally, after writing its output
RunSucceeded == pc = "exited" /\ exit_code = 0 /\ output_file.kind = "csv"

\* the weights are as the data model wants them: all positive
PositiveWeights == \A j \in DOMAIN weights : weights[j] > 0

\* the run ended with this error message
FailedWith(message) ==
    pc = "exited" /\ exit_code = 1 /\ stdout = <<(<<"Error: ">> \o message)>>

ZeroColumnMessage == <<"Column with all zeros detected">>

CountMessage == <<"Weights and impacts count must equal criteria count", ToString(C)>>

DatasetMessages ==
    { <<"File not found">>,
      <<"Unable to read file: ", "<exception>">>,
      <<"Input file must have at least 3 columns">>,
      <<"Columns 2 onwards must contain only numeric values">> }

ParameterMessages ==
    { <<"Weights must be numeric and separated by commas">>,
      <<"Impacts must be '+' or '-' and separated by commas">>,
      CountMessage }

----------------------------------------------------------------------------
(* The properties *)

\* C1: whenever the engine has returned, the ranks are a permutation of 1..R:
\* there are R of them and every integer of 1..R is the rank of exactly one
\* alternative, also when scores are equal.
C1_RanksArePermutation ==
    EngineReturned =>
        /\ R >= 1
        /\ DOMAIN ranks = 1..R
        /\ \A r \in 1..R : Cardinality({i \in 1..R : ranks[i] = r}) = 1

\* C1 witness: the engine returned ranks for two alternatives of equal score
C1_Witness ==
    /\ EngineReturned
    /\ \E i, k \in 1..R : i # k /\ scores[i] = scores[k]

\* C2: for positive weights, the ranks are the positions in a stable sort by descending score: a
\* higher score has a smaller rank, and of two equal scores the earlier row
\* has the smaller rank.
C2_StableDescendingRanks ==
    (EngineReturned /\ PositiveWeights) =>
        \A i, k \in 1..R :
            /\ scores[i] > scores[k] => ranks[i] < ranks[k]
            /\ (scores[i] = scores[k] /\ i < k) => ranks[i] < ranks[k]

\* C3: every score lies in [0, 1] whenever s_best + s_worst > 0.
C3_ScoresInUnitInterval ==
    EngineReturned =>
        \A i \in 1..R :
            s_best[i] + s_worst[i] > 0 => (0 <= scores[i] /\ scores[i] <= Scale)

\* C3 witness: the engine returned a score strictly between 0 and 1
C3_Witness ==
    /\ EngineReturned
    /\ \E i \in 1..R : s_best[i] + s_worst[i] > 0 /\ 0 < scores[i] /\ scores[i] < Scale

\* C4: the output file is written only after the dataset checks, the parameter
\* checks and the zero-norm check have passed; a run that fails a check ends
\* with exactly one line "Error: <message>", exit code 1 and no output file,
\* the message being that of the first failing check; a run that passes them
\* all writes the output and ends with exit code 0.
C4_FailFastNoPartialOutput ==
    /\ output_file.kind # "none" =>
           /\ DatasetOk
           /\ ParamsOk
           /\ ~\E j \in 1..C : AllZeroColumn(j)
           /\ \A k \in DOMAIN stdout : stdout[k][1] # "Error: "
    /\ pc = "exited" =>
           /\ Len(stdout) = 1
           /\ \/ /\ exit_code = 1
                 /\ stdout[1][1] = "Error: "
                 /\ output_file = NoFile
              \/ /\ exit_code = 0
                 /\ stdout[1][1] = "Result written to "
                 /\ output_file.kind = "csv"
           /\ (input_file.kind # "none" /\ ~DatasetOk) =>
                  \E m \in DatasetMessages : FailedWith(m)
           /\ (DatasetOk /\ ~ParamsOk) => \E m \in ParameterMessages : FailedWith(m)
           /\ (DatasetOk /\ ParamsOk /\ \E j \in 1..C : AllZeroColumn(j)) =>
                  FailedWith(ZeroColumnMessage)
    /\ pc # "exited" => (exit_code = 0 /\ \A k \in DOMAIN stdout : stdout[k][1] # "Error: ")

\* C4 witness: a run that passed the dataset and parameter checks and failed
\* the zero-norm check
C4_Witness == DatasetOk /\ ParamsOk /\ FailedWith(ZeroColumnMessage)

\* C5: for positive weights, the output table is the input table with exactly the two columns
\* "Topsis Score" and "Rank" appended: every input column is there unchanged,
\* one output row per input row in the same order.
C5_OutputIsInputPlusTwoColumns ==
    (output_file.kind = "csv" /\ PositiveWeights) =>
        /\ output_file.columns = input_file.columns \o <<"Topsis Score", "Rank">>
        /\ Len(output_file.rows) = R
        /\ \A i \in 1..R :
               output_file.rows[i] =
                   input_file.rows[i] \o <<ToString(scores[i]), ToString(ranks[i])>>

\* C6: parse_and_validate returns only when the number of weights and the
\* number of impacts both equal the number of criteria; when the weights and
\* impacts parse and either count differs, the run fails with the count
\* message and writes no output, so the engine never runs on such a pair.
C6_CountsMatchCriteria ==
    /\ ParametersReturned => (Len(weights) = C /\ Len(impacts) = C)
    /\ FailedWith(CountMessage) =>
           /\ Len(weights) # C \/ Len(impacts) # C
           /\ output_file = NoFile
           /\ scores = <<>>
           /\ ranks = <<>>
    /\ (/\ pc = "exited"
        /\ DatasetOk
        /\ ~FailedWith(<<"Weights must be numeric and separated by commas">>)
        /\ ~FailedWith(<<"Impacts must be '+' or '-' and separated by commas">>)
        /\ (Len(weights) # C \/ Len(impacts) # C)) => FailedWith(CountMessage)

\* C6 witness: a run that failed the count check with the right number of
\* weights and a wrong number of impacts
C6_Witness == FailedWith(CountMessage) /\ Len(weights) = C /\ Len(impacts) # C

\* C7: every weight vector that passes validation has one weight per criterion,
\* and no run with a zero or negative weight succeeds.
C7_WeightsPositive ==
    /\ RunSucceeded => PositiveWeights
    /\ ParametersReturned => Len(weights) = C

\* C8: a run whose table has an all-zero criteria column (and passes the
\* earlier checks) fails with the zero-column message before any score, rank
\* or output exists; the engine returns only when no column is all zeros, and
\* it raises the zero-column error only when one is.
C8_ZeroColumnAborts ==
    /\ EngineReturned => ~\E j \in 1..C : AllZeroColumn(j)
    /\ (/\ pc = "exited"
        /\ DatasetOk
        /\ ParamsOk
        /\ \E j \in 1..C : AllZeroColumn(j)) =>
           /\ FailedWith(ZeroColumnMessage)
           /\ s_best = <<>> /\ s_worst = <<>> /\ scores = <<>> /\ ranks = <<>>
           /\ output_file = NoFile
    /\ FailedWith(ZeroColumnMessage) => \E j \in 1..C : AllZeroColumn(j)

\* C8 witness: a table with rows, one all-zero column and one column that is
\* not, stopped by the zero-column error
C8_Witness ==
    /\ FailedWith(ZeroColumnMessage)
    /\ R >= 1
    /\ \E j \in 1..C : AllZeroColumn(j)
    /\ \E j \in 1..C : ~AllZeroColumn(j)

\* C9: for positive weights, an alternative with s_best + s_worst = 0 gets score 0; a single row
\* gets score 0 and rank 1; when all rows are identical every score is 0 and
\* the ranks are 1..R in input order.
C9_ZeroSeparationFallback ==
    (EngineReturned /\ PositiveWeights) =>
        /\ \A i \in 1..R : s_best[i] + s_worst[i] = 0 => scores[i] = 0
        /\ R = 1 => (scores[1] = 0 /\ ranks[1] = 1)
        /\ (\A i \in 1..R : input_file.rows[i] = <<IdText(i)>> \o Tail(input_file.rows[1])) =>
               \A i \in 1..R : scores[i] = 0 /\ ranks[i] = i

\* the matrix, weights or impacts without criterion c
DropColumn(data, c) ==
    [nrows |-> data.nrows,
     ncols |-> data.ncols - 1,
     v     |-> [i \in 1..data.nrows |->
                  [j \in 1..(data.ncols - 1) |->
                      IF j < c THEN data.v[i][j] ELSE data.v[i][j + 1]]]]

DropAt(s, c) == [j \in 1..(Len(s) - 1) |-> IF j < c THEN s[j] ELSE s[j + 1]]

\* C10: a criteria column holding one nonzero value has a nonzero norm and
\* adds nothing to any s_best or s_worst: the separations and scores are those
\* of the matrix, weights and impacts without that column, and the ranks are
\* ranks of those scores.
C10_ConstantColumnContributesNothing ==
    ParametersReturned =>
        \A c \in 1..C :
            ConstantNonzeroColumn(c) =>
                LET data == ToNumpy(InputFrame)
                    d    == DropColumn(data, c)
                    w    == DropAt(weights, c)
                    imp  == DropAt(impacts, c)
                    sb   == SBest(d, w, imp)
                    sw   == SWorst(d, w, imp)
                    sc   == Closeness(sb, sw)
                IN  /\ Norms(data)[c] # 0
                    /\ FailedWith(ZeroColumnMessage) => \E j \in 1..C : AllZeroColumn(j)
                    /\ EngineReturned =>
                           /\ s_best = sb
                           /\ s_worst = sw
                           /\ scores = sc
                           /\ \E order \in Argsort(Negated(sc)) : ranks = RanksOf(order)

\* C10 witness: three criteria, one of them constant and not zero, and the
\* engine returned scores that differ
C10_Witness ==
    /\ EngineReturned
    /\ C = 3
    /\ \E c \in 1..C : ConstantNonzeroColumn(c)
    /\ \E i, k \in 1..R : scores[i] # scores[k]

====
